---- MODULE Spec2Model ----
(***************************************************************************)
(* TransitLens: the loader/normaliser (utils.py), the session holder and   *)
(* the aggregations of the dashboard (transit_tool.py) and of the four     *)
(* pages (pages/1..4), as a state machine.                                 *)
(*                                                                         *)
(* Text is a tuple of one-character strings, so that stripping, exact      *)
(* replacement, case folding and pattern search are computed character by  *)
(* character. A blank CSV cell is the empty text; pandas reads it as NaN.  *)
(* Floating values are records [isnan, val] with val in hundredths.        *)
(***************************************************************************)
EXTENDS Integers, Sequences, FiniteSets, TLC

VARIABLES
  attempt,       \* history: the outcome of the most recent load attempt of the dashboard
  frames,        \* the DataFrame objects alive between script runs, by reference 1..Len
  transit_data,  \* st.session_state.transit_data: a reference into frames, or NoTable
  loaded,        \* history: the value of the table at the last set_session_data
  result         \* what the last script run handed to the presentation layer

vars == <<attempt, frames, transit_data, loaded, result>>

(***************************************************************************)
(* Bounds of the model.                                                    *)
(***************************************************************************)
\* rows of an uploaded CSV file in the session life cycle (Spec)
MaxFileRows == 1
\* rows of a trip table handed to the aggregations (SpecAgg)
MaxTrips == 3
\* rows of an uploaded CSV file whose cells are drawn from the synonyms (SpecRemap)
MaxRemapRows == 2
\* trips of the long day handed to the sequence extraction (SpecSeq)
MaxWalk == 13

(***************************************************************************)
(* Values: text, missing values, floats.                                   *)
(***************************************************************************)
\* NaN in an object (text) column
NA == <<"<NA>">>

\* NaT in a datetime column
NaT == [nat |-> TRUE]

Num(v) == [isnan |-> FALSE, val |-> v]

NaN == [isnan |-> TRUE, val |-> 0]

RECURSIVE SumSeq(_)
SumSeq(s) == IF s = <<>> THEN 0 ELSE Head(s) + SumSeq(Tail(s))

RECURSIVE FilterSeq(_, _)
\* the elements of s at the positions where keep holds, in order
FilterSeq(s, keep) ==
  IF s = <<>> THEN <<>>
  ELSE (IF Head(keep) THEN <<Head(s)>> ELSE <<>>) \o FilterSeq(Tail(s), Tail(keep))

Range(s) == {s[i] : i \in DOMAIN s}

Zone17 == <<"Z", "o", "n", "e", "1", "7">>
Zone20 == <<"Z", "o", "n", "e", "2", "0">>
Zone27 == <<"Z", "o", "n", "e", "2", "7">>
AldershotGO == <<"A", "l", "d", "e", "r", "s", "h", "o", "t", " ", "G", "O">>
SquareOne == <<"S", "q", "u", "a", "r", "e", " ", "O", "n", "e">>
UniversityOfWaterloo ==
  <<"U", "n", "i", "v", "e", "r", "s", "i", "t", "y", " ", "o", "f", " ",
    "W", "a", "t", "e", "r", "l", "o", "o">>

(***************************************************************************)
(* Dates. A Date cell of the CSV is the text MM/DD/YYYY hh:mm:ss AM|PM,    *)
(* held by its fields (seconds are 00 throughout); a blank cell is         *)
(* BlankDate. A parsed timestamp is [y, m, d, H, M].                       *)
(***************************************************************************)
DateText(mm, dd, yyyy, hh, mi, ap) ==
  [mm |-> mm, dd |-> dd, yyyy |-> yyyy, hh |-> hh, mi |-> mi, ap |-> ap]

BlankDate == [blank |-> TRUE]

IsLeap(y) == (y % 4 = 0 /\ y % 100 # 0) \/ y % 400 = 0

DaysInMonth(y, m) ==
  IF m = 2 THEN (IF IsLeap(y) THEN 29 ELSE 28)
  ELSE IF m \in {4, 6, 9, 11} THEN 30 ELSE 31

\* does the text match format="%m/%d/%Y %I:%M:%S %p"
MatchesFormat(t) ==
  /\ t # BlankDate
  /\ t.mm \in 1..12
  /\ t.yyyy \in 1..9999
  /\ t.dd \in 1..DaysInMonth(t.yyyy, t.mm)
  /\ t.hh \in 1..12
  /\ t.mi \in 0..59
  /\ t.ap \in {"AM", "PM"}

\* strptime: %I with %p gives the 24-hour hour
Strptime(t) ==
  [y |-> t.yyyy, m |-> t.mm, d |-> t.dd,
   H |-> (t.hh % 12) + (IF t.ap = "PM" THEN 12 ELSE 0), M |-> t.mi]

\* days since 1970-01-01 of a calendar date
DaysFromCivil(y, m, d) ==
  LET yy == IF m <= 2 THEN y - 1 ELSE y
      era == yy \div 400
      yoe == yy - era * 400
      mp == (m + 9) % 12
      doy == (153 * mp + 2) \div 5 + d - 1
      doe == yoe * 365 + yoe \div 4 - yoe \div 100 + doy
  IN era * 146097 + doe - 719468

day_order ==
  <<"Monday", "Tuesday", "Wednesday", "Thursday", "Friday", "Saturday", "Sunday">>

\* 0 = Monday .. 6 = Sunday (1970-01-01 was a Thursday)
Weekday(ts) == (DaysFromCivil(ts.y, ts.m, ts.d) + 3) % 7

\* Series.dt.day_name(); NaT gives NaN
DayName(ts) == IF ts = NaT THEN "NaN" ELSE day_order[Weekday(ts) + 1]

\* Series.dt.hour; with a NaT in the column the hours are floats and NaT gives NaN
HourOf(ts) == IF ts = NaT THEN NaN ELSE Num(ts.H)

\* Series.dt.to_period("M").astype(str): "YYYY-MM", held as <<y, m>>; NaT gives "NaT"
MonthNaT == <<>>

MonthOf(ts) == IF ts = NaT THEN MonthNaT ELSE <<ts.y, ts.m>>

YearOf(ts) == IF ts = NaT THEN NaN ELSE Num(ts.y)

\* Series.dt.date
DateOnly(ts) == IF ts = NaT THEN NaT ELSE [y |-> ts.y, m |-> ts.m, d |-> ts.d]

DayOfYear(ts) == DaysFromCivil(ts.y, ts.m, ts.d) - DaysFromCivil(ts.y, 1, 1) + 1

WeeksInYear(y) ==
  LET P(x) == (x + x \div 4 - x \div 100 + x \div 400) % 7
  IN IF P(y) = 4 \/ P(y - 1) = 3 THEN 53 ELSE 52

\* Series.dt.isocalendar().week
IsoWeek(ts) ==
  IF ts = NaT THEN NaN
  ELSE LET w == (DayOfYear(ts) - (Weekday(ts) + 1) + 10) \div 7
       IN IF w < 1 THEN Num(WeeksInYear(ts.y - 1))
          ELSE IF w > WeeksInYear(ts.y) THEN Num(1) ELSE Num(w)

\* minutes since the epoch: the order of timestamps
Minutes(ts) == (DaysFromCivil(ts.y, ts.m, ts.d) * 24 + ts.H) * 60 + ts.M

DateOrd(d) == DaysFromCivil(d.y, d.m, d.d)

\* the string order of "YYYY-MM" keys as an integer; "NaT" sorts after every digit
MonthIdx(k) == IF k = MonthNaT THEN 120000 ELSE k[1] * 12 + k[2]

(***************************************************************************)
(* Amount text: characters '-', '$', digits and '.'.                       *)
(***************************************************************************)
Digits == <<"0", "1", "2", "3", "4", "5", "6", "7", "8", "9">>

IsDigit(c) == \E i \in DOMAIN Digits : Digits[i] = c

DigitVal(c) == (CHOOSE i \in DOMAIN Digits : Digits[i] = c) - 1

RECURSIVE StrReplace(_, _)
\* Series.str.replace(c, ""): every occurrence of the character removed
StrReplace(s, c) ==
  IF s = <<>> THEN <<>>
  ELSE (IF Head(s) = c THEN <<>> ELSE <<Head(s)>>) \o StrReplace(Tail(s), c)

RECURSIVE IntOf(_)
IntOf(ds) == IF ds = <<>> THEN 0 ELSE IntOf(SubSeq(ds, 1, Len(ds) - 1)) * 10 + DigitVal(ds[Len(ds)])

AllDigits(s) == \A i \in DOMAIN s : IsDigit(s[i])

\* position of the first '.', or 0
DotAt(s) == IF \E i \in DOMAIN s : s[i] = "." THEN CHOOSE i \in DOMAIN s : s[i] = "." /\ \A j \in 1..(i - 1) : s[j] # "." ELSE 0

\* an unsigned decimal literal: digits, optionally with a point; at most two decimals
IsUnsigned(s) ==
  LET k == DotAt(s)
      ip == IF k = 0 THEN s ELSE SubSeq(s, 1, k - 1)
      fp == IF k = 0 THEN <<>> ELSE SubSeq(s, k + 1, Len(s))
  IN /\ AllDigits(ip) /\ AllDigits(fp)
     /\ Len(ip) + Len(fp) > 0
     /\ Len(fp) <= 2

UnsignedVal(s) ==
  LET k == DotAt(s)
      ip == IF k = 0 THEN s ELSE SubSeq(s, 1, k - 1)
      fp == IF k = 0 THEN <<>> ELSE SubSeq(s, k + 1, Len(s))
      f2 == IF Len(fp) = 0 THEN <<"0", "0">> ELSE IF Len(fp) = 1 THEN fp \o <<"0">> ELSE fp
  IN IntOf(ip) * 100 + IntOf(f2)

\* float(text) succeeds: an optional sign, then an unsigned literal
IsFloatText(s) ==
  /\ s # <<>>
  /\ IF Head(s) = "-" THEN IsUnsigned(Tail(s)) ELSE IsUnsigned(s)

\* float(text), in hundredths
FloatOf(s) == IF Head(s) = "-" THEN 0 - UnsignedVal(Tail(s)) ELSE UnsignedVal(s)

(***************************************************************************)
(* load_data: pandas.read_csv. A file is [header, rows]; every row carries *)
(* a cell for Date, Location, Amount and Transit Agency (read only when    *)
(* the header names the column). A blank cell is read as NaN, and a column *)
(* whose cells are all blank or numeric literals is read as float64.       *)
(***************************************************************************)
RequiredColumns == {"Date", "Location", "Amount", "Transit Agency"}

CsvRow(date, location, amount, agency) ==
  [Date |-> date, Location |-> location, Amount |-> amount, Transit_Agency |-> agency]

ReadCell(c) == IF c = <<>> THEN NA ELSE c

AmountDtype(rows) ==
  IF rows # <<>> /\ \A i \in DOMAIN rows : rows[i].Amount = <<>> \/ IsFloatText(rows[i].Amount)
  THEN "float64" ELSE "object"

load_data(file) ==
  [columns |-> file.header,
   amount_dtype |-> AmountDtype(file.rows),
   rows |-> [i \in DOMAIN file.rows |->
               [Date |-> file.rows[i].Date,
                Location |-> ReadCell(file.rows[i].Location),
                Amount |-> IF AmountDtype(file.rows) = "float64"
                           THEN (IF file.rows[i].Amount = <<>> THEN NaN
                                 ELSE Num(FloatOf(file.rows[i].Amount)))
                           ELSE ReadCell(file.rows[i].Amount),
                Transit_Agency |-> ReadCell(file.rows[i].Transit_Agency)]]]

(***************************************************************************)
(* clean_raw_data                                                          *)
(***************************************************************************)
\* no synonym replaced
RemapNone(c) == c

\* a dictionary in which a replacement is itself a key
RemapChained(c) ==
  IF c = Zone17 THEN Zone20
  ELSE IF c = Zone20 THEN SquareOne
  ELSE IF c = Zone27 THEN UniversityOfWaterloo
  ELSE c

\* the synonym dictionary of DataFrame.replace: whole-cell, exact match
Remap(c) ==
  IF c = Zone17 THEN AldershotGO
  ELSE IF c = Zone20 THEN SquareOne
  ELSE IF c = Zone27 THEN UniversityOfWaterloo
  ELSE c

\* pd.to_datetime(..., format=...) of one cell: a missing cell becomes NaT
ToDatetime(c) == IF c = BlankDate THEN NaT ELSE Strptime(c)

\* a stripping that leaves the sign in place
StripDollarOnly(c) == StrReplace(c, "$")

\* .str.replace("-", "").str.replace("$", "")
StripAmount(c) == StrReplace(StrReplace(c, "-"), "$")

\* the element-wise part of .str...astype(float): NaN passes through
AmountClean(c) == IF c = NA THEN NaN ELSE Num(FloatOf(StripAmount(c)))

\* df.replace({...}) on one row: the dictionary is applied to every cell of the
\* frame; the Date column holds timestamps by then and matches no key
replace(r) ==
  [r EXCEPT !.Location = Remap(@), !.Amount = Remap(@), !.Transit_Agency = Remap(@)]

Trip(r) ==
  LET ts == ToDatetime(r.Date)
      amount == replace(r).Amount
  IN [Date |-> ts,
      Location |-> replace(r).Location,
      Amount |-> amount,
      Transit_Agency |-> replace(r).Transit_Agency,
      Day_of_Week |-> DayName(ts),
      Hour |-> HourOf(ts),
      Month |-> MonthOf(ts),
      Week |-> IsoWeek(ts),
      Year |-> YearOf(ts),
      Date_Only |-> DateOnly(ts),
      Amount_Clean |-> AmountClean(amount)]

Failure(e) == [ok |-> FALSE, error |-> e, table |-> <<>>]

clean_raw_data(df) ==
  IF ~(RequiredColumns \subseteq df.columns) THEN Failure("KeyError")
  ELSE IF \E i \in DOMAIN df.rows :
            df.rows[i].Date # BlankDate /\ ~MatchesFormat(df.rows[i].Date)
  THEN Failure("ValueError")
  ELSE IF df.amount_dtype # "object" THEN Failure("AttributeError")
  ELSE IF \E i \in DOMAIN df.rows :
            LET a == Remap(df.rows[i].Amount)
            IN a # NA /\ ~IsFloatText(StripAmount(a))
  THEN Failure("ValueError")
  ELSE [ok |-> TRUE, error |-> "", table |-> [i \in DOMAIN df.rows |-> Trip(df.rows[i])]]

(***************************************************************************)
(* The session holder and DataFrame objects.                               *)
(***************************************************************************)
NoTable == 0

get_session_data == transit_data

\* no copy at all: the same object under a second name
DfCopyAlias(fr, ref) == [frames |-> fr, ref |-> ref]

\* DataFrame.copy(): a new object with the same rows
DfCopy(fr, ref) == [frames |-> Append(fr, fr[ref]), ref |-> Len(fr) + 1]

\* pd.DataFrame construction: a new object
DfNew(fr, table) == [frames |-> Append(fr, table), ref |-> Len(fr) + 1]

\* what outlives a script run: the object the session holder refers to
Keep(fr, ref) == IF ref = NoTable THEN <<>> ELSE <<fr[ref]>>

(***************************************************************************)
(* Series: a sequence of [key, val] entries, val a float ([isnan, val]).   *)
(***************************************************************************)
Entry(k, v) == [key |-> k, val |-> v]

Keys(series) == [i \in DOMAIN series |-> series[i].key]

Column(table, f) == [i \in DOMAIN table |-> table[i][f]]

\* the values that are not the column's missing value
DropNA(vals, na) == FilterSeq(vals, [i \in DOMAIN vals |-> vals[i] # na])

RECURSIVE Uniques(_)
\* the distinct values in order of first occurrence
Uniques(vals) ==
  IF vals = <<>> THEN <<>>
  ELSE LET rest == Uniques(SubSeq(vals, 1, Len(vals) - 1))
           v == vals[Len(vals)]
       IN IF v \in Range(rest) THEN rest ELSE Append(rest, v)

\* a count that sees every value once
CountOnce(vals, v) == 1

CountOf(vals, v) == Cardinality({i \in DOMAIN vals : vals[i] = v})

RECURSIVE InsertIdx(_, _, _)
\* index e put into the index list s, sorted by keys, after every index whose key is
\* not greater
InsertIdx(s, e, keys) ==
  IF s = <<>> THEN <<e>>
  ELSE IF keys[e] < keys[Head(s)] THEN <<e>> \o s
  ELSE <<Head(s)>> \o InsertIdx(Tail(s), e, keys)

RECURSIVE StableOrder(_, _)
\* the first n indices ordered by ascending key; equal keys keep their order
StableOrder(keys, n) ==
  IF n = 0 THEN <<>> ELSE InsertIdx(StableOrder(keys, n - 1), n, keys)

\* s in ascending order of keys (a sequence of integers of the same length), stable
SortByKey(s, keys) ==
  LET o == StableOrder(keys, Len(s)) IN [i \in DOMAIN s |-> s[o[i]]]

\* one entry per distinct value, in order of first occurrence
Tally(vals) ==
  LET u == Uniques(vals) IN [i \in DOMAIN u |-> Entry(u[i], Num(CountOf(vals, u[i])))]

\* Series.value_counts(): missing values dropped, most frequent first; of the
\* outcomes of its sort, the one in which equal counts keep their order of first
\* occurrence
value_counts(vals, na) ==
  LET t == Tally(DropNA(vals, na))
  IN SortByKey(t, [i \in DOMAIN t |-> 0 - t[i].val.val])

\* no truncation
headAll(series, n) == series

\* Series.head(n) and, on the descending result of value_counts, nlargest(n)
head(series, n) == SubSeq(series, 1, IF n < Len(series) THEN n ELSE Len(series))

\* sum(), skipping NaN
SumSkipNA(vals) ==
  SumSeq([i \in DOMAIN vals |-> IF vals[i].isnan THEN 0 ELSE vals[i].val])

\* df.groupby(f)[g].sum(): one entry per observed key (a missing key forms no group)
GroupSum(table, f, g, na) ==
  LET u == Uniques(DropNA(Column(table, f), na))
  IN [i \in DOMAIN u |->
        Entry(u[i], Num(SumSkipNA(Column(SelectSeq(table, LAMBDA r : r[f] = u[i]), g))))]

\* df.groupby(f).size()
GroupSize(table, f, na) == Tally(DropNA(Column(table, f), na))

\* Series.reindex(order): the entries in the given order, NaN where the key is absent
reindex(series, order) ==
  [i \in DOMAIN order |->
     IF \E j \in DOMAIN series : series[j].key = order[i]
     THEN Entry(order[i], series[CHOOSE j \in DOMAIN series : series[j].key = order[i]].val)
     ELSE Entry(order[i], NaN)]

\* Series.fillna(v)
fillna(series, v) ==
  [i \in DOMAIN series |-> IF series[i].val.isnan THEN Entry(series[i].key, Num(v)) ELSE series[i]]

\* Series.update(other): entries overwritten by the non-missing entries of other
update(series, other) ==
  [i \in DOMAIN series |->
     IF \E j \in DOMAIN other : other[j].key = series[i].key /\ ~other[j].val.isnan
     THEN Entry(series[i].key,
                other[CHOOSE j \in DOMAIN other : other[j].key = series[i].key].val)
     ELSE series[i]]

(***************************************************************************)
(* Text search.                                                            *)
(***************************************************************************)
UpperCase == <<"A", "B", "C", "D", "E", "F", "G", "H", "I", "J", "K", "L", "M",
               "N", "O", "P", "Q", "R", "S", "T", "U", "V", "W", "X", "Y", "Z">>
LowerCase == <<"a", "b", "c", "d", "e", "f", "g", "h", "i", "j", "k", "l", "m",
               "n", "o", "p", "q", "r", "s", "t", "u", "v", "w", "x", "y", "z">>

Lower(c) ==
  IF \E i \in DOMAIN UpperCase : UpperCase[i] = c
  THEN LowerCase[CHOOSE i \in DOMAIN UpperCase : UpperCase[i] = c] ELSE c

Upper(c) ==
  IF \E i \in DOMAIN LowerCase : LowerCase[i] = c
  THEN UpperCase[CHOOSE i \in DOMAIN LowerCase : LowerCase[i] = c] ELSE c

\* `needle in text`
Contains(text, needle) ==
  \E k \in 0..(Len(text) - Len(needle)) :
    \A i \in DOMAIN needle : text[k + i] = needle[i]

\* one pattern character against one character, under re.IGNORECASE: '.' is the
\* wildcard, any other character of the model's alphabet stands for itself
PatChar(p, c) == p = "." \/ Lower(p) = Lower(c)

\* Series.str.contains(pat, case=False, na=False): pat is a regular expression,
\* searched anywhere in the text; a missing text gives False
str_contains(text, pat) ==
  /\ text # NA
  /\ \E k \in 0..(Len(text) - Len(pat)) :
       \A i \in DOMAIN pat : PatChar(pat[i], text[k + i])

(***************************************************************************)
(* Sorting a table. DataFrame.sort_values uses an unstable sort: rows with *)
(* equal keys may come out in any order, missing keys last.                *)
(***************************************************************************)
Perms(n) == {p \in [1..n -> 1..n] : \A i, j \in 1..n : i # j => p[i] # p[j]}

\* every arrangement of the rows in which the integer keys ascend: the one
\* arrangement if no two keys are equal
Sorted(table, keys) ==
  IF \A i, j \in DOMAIN keys : i # j => keys[i] # keys[j]
  THEN {SortByKey(table, keys)}
  ELSE {[i \in DOMAIN table |-> table[p[i]]] :
          p \in {q \in Perms(Len(table)) :
                   \A i \in 1..(Len(table) - 1) : keys[q[i]] <= keys[q[i + 1]]}}

\* Series.value_counts() with every outcome of its sort: value_counts sorts the
\* counts with Series.sort_values, whose default kind is not stable, so entries of
\* equal count may come out in any order
value_counts_outcomes(vals, na) ==
  Sorted(Tally(DropNA(vals, na)),
         [i \in DOMAIN Tally(DropNA(vals, na)) |-> 0 - Tally(DropNA(vals, na))[i].val.val])

MaxOf(S) == CHOOSE x \in S : \A y \in S : y <= x

MinOf(S) == CHOOSE x \in S : \A y \in S : x <= y

ValidDates(table) == {table[i].Date : i \in {j \in DOMAIN table : table[j].Date # NaT}}

\* ascending by timestamp, NaT last
DateKeys(table) ==
  LET top == IF ValidDates(table) = {} THEN 0
             ELSE MaxOf({Minutes(d) : d \in ValidDates(table)}) + 1
  IN [i \in DOMAIN table |-> IF table[i].Date = NaT THEN top ELSE Minutes(table[i].Date)]

\* df.sort_values("Date").reset_index(drop=True)
sort_values_Date(table) == Sorted(table, DateKeys(table))

(***************************************************************************)
(* pages/2 Route Analysis                                                  *)
(***************************************************************************)
UpperText(t) == [i \in DOMAIN t |-> Upper(t[i])]

\* str(loc): a missing location prints as "nan"
StrOf(loc) == IF loc = NA THEN <<"n", "a", "n">> ELSE loc

categorize_location(loc) ==
  LET loc_upper == UpperText(StrOf(loc))
  IN IF Contains(loc_upper, <<"S", "T", "A", "T", "I", "O", "N">>) THEN "Subway/Train Station"
     ELSE IF Contains(loc_upper, <<" ", "A", "T", " ">>) THEN "Bus Stop"
     ELSE IF Contains(loc_upper, <<"G", "O">>) THEN "GO Transit"
     ELSE "Other"

\* a comparison that links every pair of neighbours
SameDayAlways(a, b) == TRUE

\* df_sorted.loc[i, "Date_Only"] == df_sorted.loc[i+1, "Date_Only"]; NaT equals nothing
SameDay(a, b) == a.Date_Only # NaT /\ b.Date_Only # NaT /\ a.Date_Only = b.Date_Only

\* from_loc != to_loc; NaN differs from everything
Differs(from_loc, to_loc) == from_loc = NA \/ to_loc = NA \/ from_loc # to_loc

\* f"{from_loc} -> {to_loc}" with the arrow U+2192
Label(from_loc, to_loc) == StrOf(from_loc) \o <<" ", "→", " ">> \o StrOf(to_loc)

RECURSIVE TripPairs(_, _)
\* the loop over range(len(df_sorted) - 1), up to index n (1-based)
TripPairs(df_sorted, n) ==
  IF n <= 0 THEN <<>>
  ELSE LET from_loc == df_sorted[n].Location
           to_loc == df_sorted[n + 1].Location
       IN TripPairs(df_sorted, n - 1) \o
          (IF SameDay(df_sorted[n], df_sorted[n + 1]) /\ Differs(from_loc, to_loc)
           THEN <<[i |-> n, from_loc |-> from_loc, to_loc |-> to_loc,
                   label |-> Label(from_loc, to_loc)]>>
           ELSE <<>>)

extractSequences(df_sorted) == TripPairs(df_sorted, Len(df_sorted) - 1)

\* the try block of the page on the frame ref, with the sort's outcome df_sorted
RouteAnalysis(fr, ref, n_locations, df_sorted) ==
  LET location_counts == head(value_counts(Column(fr[ref], "Location"), NA), n_locations)
      c == DfCopy(fr, ref)
      fr2 == [c.frames EXCEPT ![c.ref] =
                [i \in DOMAIN @ |->
                   [Location_Type |-> categorize_location(@[i].Location)] @@ @[i]]]
      type_counts == value_counts(Column(fr2[c.ref], "Location_Type"), "")
      trips == extractSequences(df_sorted)
      trip_counts == IF trips = <<>> THEN <<>>
                     ELSE head(value_counts(Column(trips, "label"), NA), 10)
  IN [frames |-> fr2,
      out |-> [op |-> "routes", error |-> "", n_locations |-> n_locations,
               location_counts |-> location_counts,
               type_counts |-> type_counts, df_sorted |-> df_sorted,
               trips |-> trips, trip_counts |-> trip_counts]]

(***************************************************************************)
(* pages/1 Travel Patterns                                                 *)
(***************************************************************************)
\* pd.Series(index=range(24), data=0)
ZeroHours == [i \in 1..24 |-> Entry(i - 1, Num(0))]

HourKeys(series) == [i \in DOMAIN series |-> Entry(series[i].key.val, series[i].val)]

\* the members of a set of integers in ascending order
Ascending(S) ==
  [i \in 1..Cardinality(S) |-> CHOOSE x \in S : Cardinality({y \in S : y < x}) = i - 1]

\* df.groupby(["Day_of_Week", "Hour"]).size().unstack(fill_value=0): a row for every
\* weekday observed, a column for every hour observed, in ascending order; rows
\* without a date form no group
unstack_size(df) ==
  LET dated == SelectSeq(df, LAMBDA r : r.Day_of_Week # "NaN" /\ ~r.Hour.isnan)
      columns == Ascending({dated[i].Hour.val : i \in DOMAIN dated})
  IN [index |-> {dated[i].Day_of_Week : i \in DOMAIN dated},
      columns |-> columns,
      cells |-> [d \in {dated[i].Day_of_Week : i \in DOMAIN dated} |->
                   [c \in DOMAIN columns |->
                      Num(Cardinality({i \in DOMAIN dated :
                            dated[i].Day_of_Week = d /\ dated[i].Hour.val = columns[c]}))]]]

\* DataFrame.reindex(order): the rows in the given order, a row of NaN where the
\* label is absent
reindex_rows(grid, order) ==
  [index |-> order,
   columns |-> grid.columns,
   cells |-> [d \in DOMAIN order |->
                IF order[d] \in grid.index THEN grid.cells[order[d]]
                ELSE [c \in DOMAIN grid.columns |-> NaN]]]

TravelPatterns(fr, ref) ==
  LET df == fr[ref]
      heatmap_data == reindex_rows(unstack_size(df), day_order)
      day_counts == fillna(reindex(value_counts(Column(df, "Day_of_Week"), "NaN"), day_order), 0)
      hour_counts == HourKeys(value_counts(Column(df, "Hour"), NaN))
      all_hours == update(ZeroHours, hour_counts)
      sizes == GroupSize(df, "Month", <<0>>)
      monthly_trips == SortByKey(sizes, [i \in DOMAIN sizes |-> MonthIdx(sizes[i].key)])
  IN [frames |-> fr,
      out |-> [op |-> "patterns", error |-> "", day_counts |-> day_counts,
               all_hours |-> all_hours, heatmap_data |-> heatmap_data,
               monthly_trips |-> monthly_trips]]

(***************************************************************************)
(* pages/3 Spending Insights                                               *)
(***************************************************************************)
\* Series.cumsum(): a running sum that skips NaN and leaves NaN in its place
cumsum(vals) ==
  [i \in DOMAIN vals |->
     IF vals[i].isnan THEN NaN ELSE Num(SumSkipNA(SubSeq(vals, 1, i)))]

\* the try block of the page on the frame ref, with the sort's outcome sorted
SpendingInsights(fr, ref, sorted) ==
  LET df == fr[ref]
      total_spent == SumSkipNA(Column(df, "Amount_Clean"))
      sums == GroupSum(df, "Month", "Amount_Clean", <<0>>)
      monthly_spending == SortByKey(sums, [i \in DOMAIN sums |-> MonthIdx(sums[i].key)])
      day_spending == reindex(GroupSum(df, "Day_of_Week", "Amount_Clean", "NaN"), day_order)
      s == DfNew(fr, sorted)
      c == DfCopy(s.frames, s.ref)
      cs == cumsum(Column(c.frames[c.ref], "Amount_Clean"))
      fr2 == [c.frames EXCEPT ![c.ref] =
                [i \in DOMAIN @ |-> [Cumulative_Spending |-> cs[i]] @@ @[i]]]
  IN [frames |-> fr2,
      out |-> [op |-> "spending", error |-> "", total_spent |-> total_spent,
               monthly_spending |-> monthly_spending, day_spending |-> day_spending,
               df_sorted |-> fr2[c.ref]]]

(***************************************************************************)
(* pages/4 Data Explorer                                                   *)
(***************************************************************************)
All == <<"A", "l", "l">>

\* (Date.dt.date >= start_date) & (Date.dt.date <= end_date)
InRange(r, start_date, end_date) ==
  /\ r.Date # NaT
  /\ DateOrd(DateOnly(r.Date)) >= DateOrd(start_date)
  /\ DateOrd(DateOnly(r.Date)) <= DateOrd(end_date)

\* filtered_df = df.copy() and the three optional selections; every selection is a
\* new DataFrame object
ApplyFilters(fr, ref, date_range, selected_agency, location_search) ==
  LET c == DfCopy(fr, ref)
      a == IF Len(date_range) = 2
           THEN DfNew(c.frames, SelectSeq(c.frames[c.ref],
                        LAMBDA r : InRange(r, date_range[1], date_range[2])))
           ELSE c
      b == IF selected_agency # All
           THEN DfNew(a.frames, SelectSeq(a.frames[a.ref],
                        LAMBDA r : r.Transit_Agency = selected_agency))
           ELSE a
  IN IF location_search # <<>>
     THEN DfNew(b.frames, SelectSeq(b.frames[b.ref],
                  LAMBDA r : str_contains(r.Location, location_search)))
     ELSE b

\* Series.dt.strftime("%Y-%m-%d %H:%M"): the text, by its fields
Strftime(ts) == IF ts = NaT THEN NaT ELSE <<ts.y, ts.m, ts.d, ts.H, ts.M>>

\* the Monday of the timestamp's week, in days since the epoch
WeekStart(ts) ==
  IF ts = NaT THEN NaN ELSE Num(DaysFromCivil(ts.y, ts.m, ts.d) - Weekday(ts))

\* the display modes: what each builds from filtered_df
Display(fr, f, display_mode) ==
  IF display_mode = "Table View"
  THEN LET sel == DfNew(fr, [i \in DOMAIN fr[f] |->
                      [Date |-> fr[f][i].Date, Location |-> fr[f][i].Location,
                       Transit_Agency |-> fr[f][i].Transit_Agency,
                       Amount |-> fr[f][i].Amount]])
           c == DfCopy(sel.frames, sel.ref)
           fr2 == [c.frames EXCEPT ![c.ref] =
                     [i \in DOMAIN @ |-> [@[i] EXCEPT !.Date = Strftime(@)]]]
       IN [frames |-> fr2, display_df |-> fr2[c.ref]]
  ELSE IF display_mode = "Timeline View"
  THEN LET c == DfCopy(fr, f)
           fr2 == [c.frames EXCEPT ![c.ref] =
                     [i \in DOMAIN @ |-> [Week_Start |-> WeekStart(@[i].Date)] @@ @[i]]]
       IN [frames |-> fr2, display_df |-> GroupSize(fr2[c.ref], "Week_Start", NaN)]
  ELSE [frames |-> fr,
        display_df |->
          [top_locations |-> head(value_counts(Column(fr[f], "Location"), NA), 5),
           agency_counts |-> value_counts(Column(fr[f], "Transit_Agency"), NA),
           hour_counts |-> head(value_counts(Column(fr[f], "Hour"), NaN), 5),
           day_counts |-> head(value_counts(Column(fr[f], "Day_of_Week"), "NaN"), 5)]]

\* the try block of the page on the frame ref
DataExplorer(fr, ref, date_range, selected_agency, location_search, display_mode) ==
  LET f == ApplyFilters(fr, ref, date_range, selected_agency, location_search)
      d == Display(f.frames, f.ref, display_mode)
  IN [frames |-> d.frames,
      out |-> [op |-> "explorer", error |-> "",
               date_range |-> date_range, selected_agency |-> selected_agency,
               location_search |-> location_search, display_mode |-> display_mode,
               filtered_df |-> f.frames[f.ref], display_df |-> d.display_df]]

\* descending by the Date text, missing last
DisplayKeys(display_df) ==
  [i \in DOMAIN display_df |->
     IF display_df[i].Date = NaT THEN 1
     ELSE 0 - Minutes([y |-> display_df[i].Date[1], m |-> display_df[i].Date[2],
                       d |-> display_df[i].Date[3], H |-> display_df[i].Date[4],
                       M |-> display_df[i].Date[5]])]

(***************************************************************************)
(* transit_tool: the dashboard                                             *)
(***************************************************************************)
\* Series.nlargest(n): the n largest values, earlier entries first among equals
nlargest(series, n) ==
  head(SortByKey(series, [i \in DOMAIN series |-> 0 - series[i].val.val]), n)

\* Date - pd.DateOffset(months=1): the same day of the previous month, clipped to its end
ShiftMonth(ts) ==
  IF ts = NaT THEN NaT
  ELSE LET y2 == IF ts.m = 1 THEN ts.y - 1 ELSE ts.y
           m2 == IF ts.m = 1 THEN 12 ELSE ts.m - 1
           d2 == IF ts.d > DaysInMonth(y2, m2) THEN DaysInMonth(y2, m2) ELSE ts.d
       IN [ts EXCEPT !.y = y2, !.m = m2, !.d = d2]

\* groupby(pd.Grouper(freq="M")): one bin per calendar month from the first to the
\* last dated row, empty months included; rows without a date fall in no bin
MonthBins(table) ==
  LET idx == {MonthIdx(MonthOf(d)) : d \in ValidDates(table)}
  IN IF idx = {} THEN <<>>
     ELSE [k \in 1..(MaxOf(idx) - MinOf(idx) + 1) |->
             <<(MinOf(idx) + k - 2) \div 12, ((MinOf(idx) + k - 2) % 12) + 1>>]

InBin(table, bin) == SelectSeq(table, LAMBDA r : r.Date # NaT /\ MonthOf(r.Date) = bin)

map_frequent_stops(df) ==
  [location_counts |-> nlargest(value_counts(Column(df, "Location"), NA), 10),
   number_unique_stops |-> Len(Uniques(Column(df, "Location")))]

get_spendings_data(fr, ref) ==
  LET c == DfCopy(fr, ref)
      fr2 == [c.frames EXCEPT ![c.ref] =
                [i \in DOMAIN @ |-> [@[i] EXCEPT !.Date = ShiftMonth(@)]]]
      df == fr2[c.ref]
      bins == MonthBins(df)
  IN [frames |-> fr2,
      out |-> [i \in DOMAIN bins |->
                 Entry(bins[i], Num(SumSkipNA(Column(InBin(df, bins[i]), "Amount_Clean"))))],
      num_amount_spent |-> SumSkipNA(Column(df, "Amount_Clean"))]

get_tap_data(fr, ref) ==
  LET c == DfCopy(fr, ref)
      df == c.frames[c.ref]
      bins == MonthBins(df)
  IN [frames |-> c.frames,
      taps |-> [i \in DOMAIN bins |->
                  Entry(bins[i], Num(Cardinality({j \in DOMAIN df :
                                       df[j].Date # NaT /\ MonthOf(df[j].Date) = bins[i]})))],
      unique_days_travelled |-> Cardinality({DateOnly(d) : d \in ValidDates(df)})]

\* agency_df.groupby("Transit Agency")["Amount_Clean"].agg("sum").sort_values()
AgencySpending(agency_df) ==
  SortByKey(GroupSum(agency_df, "Transit_Agency", "Amount_Clean", NA),
            [i \in DOMAIN GroupSum(agency_df, "Transit_Agency", "Amount_Clean", NA) |->
               GroupSum(agency_df, "Transit_Agency", "Amount_Clean", NA)[i].val.val])

\* what the run hands over once the table is stored
DashboardOut(file, df, stops, spend, taps, agency_df) ==
  [op |-> "dashboard", error |-> "", stored |-> TRUE, file |-> file,
   total_trips |-> Len(df),
   total_spent |-> SumSkipNA(Column(df, "Amount_Clean")),
   location_counts |-> stops.location_counts,
   monthly_spending |-> spend.out,
   monthly_taps |-> taps.taps,
   agency_spending |-> AgencySpending(agency_df.frames[agency_df.ref])]

DashboardAgency(file, cleaned, ref, df, stops, spend, taps, agency_df) ==
  [attempt |-> cleaned, stored |-> TRUE, frames |-> agency_df.frames, ref |-> ref,
   out |-> DashboardOut(file, df, stops, spend, taps, agency_df)]

DashboardTaps(file, cleaned, ref, df, stops, spend, taps) ==
  DashboardAgency(file, cleaned, ref, df, stops, spend, taps, DfCopy(taps.frames, ref))

DashboardSpend(file, cleaned, ref, df, stops, spend) ==
  DashboardTaps(file, cleaned, ref, df, stops, spend, get_tap_data(spend.frames, ref))

\* after set_session_data(df): the metrics and charts, in the order of the script
DashboardCharts(file, cleaned, n) ==
  DashboardSpend(file, cleaned, n.ref, n.frames[n.ref],
                 map_frequent_stops(n.frames[n.ref]),
                 get_spendings_data(n.frames, n.ref))

DashboardLoaded(fr, file, cleaned) ==
  IF ~cleaned.ok
  THEN [attempt |-> cleaned, stored |-> FALSE, frames |-> fr, ref |-> NoTable,
        out |-> [op |-> "dashboard", error |-> cleaned.error, stored |-> FALSE,
                 file |-> file]]
  ELSE DashboardCharts(file, cleaned, DfNew(fr, cleaned.table))

\* the script from load_data to the agency chart, on the file of the uploader: a
\* failure anywhere in the try block ends the run in the except branch
Dashboard(fr, file) == DashboardLoaded(fr, file, clean_raw_data(load_data(file)))

\* the run with every order map_frequent_stops may give to stops of equal count
RankedStops(d) ==
  IF ~d.stored THEN {d}
  ELSE {[d EXCEPT !.out.location_counts = nlargest(ranked, 10)] :
          ranked \in value_counts_outcomes(Column(d.attempt.table, "Location"), NA)}

DashboardOutcomes(fr, file) == RankedStops(Dashboard(fr, file))

(***************************************************************************)
(* The inputs of the model.                                                *)
(***************************************************************************)
Union == <<"U", "n", "i", "o", "n">>
StDotC == <<"S", "t", ".", "C">>
StnC == <<"S", "t", "n", "C">>
GO == <<"G", "O">>
TTC == <<"T", "T", "C">>

FriMorning == DateText(1, 5, 2024, 8, 15, "AM")
FriEvening == DateText(1, 5, 2024, 5, 40, "PM")
FriBadHour == DateText(1, 5, 2024, 17, 40, "PM")
SatMidnight == DateText(1, 6, 2024, 12, 5, "AM")
SunMarch == DateText(3, 31, 2024, 9, 0, "AM")

Fare == <<"$", "3", ".", "2", "5">>

WellFormedRow == CsvRow(FriMorning, Zone17, Fare, GO)

\* rows of the uploads of the session life cycle: a well-formed row, and rows with a
\* blank Date, a Date outside the format, an Amount that is no number, an
\* undecorated Amount
LifeRows ==
  {WellFormedRow,
   CsvRow(BlankDate, Zone17, Fare, GO),
   CsvRow(FriBadHour, Zone17, Fare, GO),
   CsvRow(FriMorning, Zone17, <<"$", "x">>, GO),
   CsvRow(SatMidnight, Zone17, <<"3">>, GO)}

\* rows of the trip tables handed to the aggregations
AggRows ==
  {CsvRow(FriMorning, Zone17, <<"$", "3", ".", "2", "5">>, GO),
   CsvRow(FriEvening, Union, <<"-", "$", "3", ".", "2", "5">>, GO),
   CsvRow(FriEvening, StDotC, <<"$", "2">>, TTC),
   CsvRow(SatMidnight, StnC, <<"$", "-", "2">>, TTC),
   CsvRow(SunMarch, Union, <<"1", "0">>, GO)}

SeqsUpTo(S, n) == UNION {[1..k -> S] : k \in 0..n}

File(header, rows) == [header |-> header, rows |-> rows]

UnionStation == <<"U", "n", "i", "o", "n", " ", "S", "t", "a", "t", "i", "o", "n">>

\* an upload of two trips of one Friday, the second with its hour written on the
\* 24-hour clock, and the same upload with that hour on the 12-hour clock
ExampleFile ==
  File(RequiredColumns,
       <<CsvRow(FriMorning, Zone17, <<"$", "3", ".", "2", "5">>, GO),
         CsvRow(FriBadHour, UnionStation, <<"-", "$", "3", ".", "2", "5">>, GO)>>)

ExampleFile12h ==
  File(RequiredColumns,
       <<CsvRow(FriMorning, Zone17, <<"$", "3", ".", "2", "5">>, GO),
         CsvRow(FriEvening, UnionStation, <<"-", "$", "3", ".", "2", "5">>, GO)>>)

\* the uploads: every file of up to MaxFileRows rows, one with a further column, and
\* one for each required column left out
LifeFiles ==
  {File(RequiredColumns, rows) : rows \in SeqsUpTo(LifeRows, MaxFileRows)}
  \cup {File(RequiredColumns \cup {"Type"}, <<WellFormedRow>>)}
  \cup {ExampleFile, ExampleFile12h}
  \cup {File(RequiredColumns \ {c}, <<WellFormedRow>>) : c \in RequiredColumns}

AggFiles == {File(RequiredColumns, rows) : rows \in SeqsUpTo(AggRows, MaxTrips)}

\* "transit_usage.csv", the export bundled with the application
SampleFile ==
  File(RequiredColumns \cup {"Type"},
       <<CsvRow(FriMorning, Zone17, <<"$", "3", ".", "2", "5">>, GO),
         CsvRow(FriEvening, Union, <<"-", "$", "3", ".", "2", "5">>, GO)>>)

\* the slider of pages/2: 5 to 20
SliderValues == {5, 10, 20}

SearchTexts == {<<>>, <<"u", "N">>, <<"t", ".", "C">>}

DisplayModes == {"Table View", "Timeline View", "Summary View"}

(***************************************************************************)
(* The state machine: one action per script run.                           *)
(***************************************************************************)
NoAttempt == [ok |-> FALSE, error |-> "no upload", table |-> <<>>]

Init ==
  /\ attempt = NoAttempt
  /\ frames = <<>>
  /\ transit_data = NoTable
  /\ loaded = <<>>
  /\ result = [op |-> "start", error |-> ""]

\* transit_tool.py run with the file in the uploader
Leave(d) ==
  /\ attempt' = d.attempt
  /\ transit_data' = IF d.stored THEN 1 ELSE transit_data
  /\ frames' = IF d.stored THEN Keep(d.frames, d.ref) ELSE frames
  /\ loaded' = IF d.stored THEN d.attempt.table ELSE loaded
  /\ result' = d.out

\* the except branch reached from the charts, after set_session_data: the table stays
\* stored. A table with rows of which none has a date leaves the monthly Grouper
\* without a first and a last month; whether it raises depends on the pandas release
ChartFailure(d) ==
  /\ d.stored
  /\ d.attempt.table # <<>>
  /\ ValidDates(d.attempt.table) = {}
  /\ Leave([d EXCEPT !.out = [op |-> "dashboard", error |-> "ValueError",
                              stored |-> TRUE, file |-> d.out.file]])

RunDashboard(file) ==
  \/ \E d \in DashboardOutcomes(frames, file) : Leave(d)
  \/ ChartFailure(Dashboard(frames, file))

\* the head of every page: the held table, or a load of its own outside the try block
PageData ==
  IF get_session_data # NoTable
  THEN [frames |-> frames, ref |-> get_session_data, from_session |-> TRUE]
  ELSE [from_session |-> FALSE] @@
       DfNew(frames, clean_raw_data(load_data(SampleFile)).table)

\* what a page run leaves behind and hands over
Finish(start, run) ==
  /\ frames' = Keep(run.frames, transit_data)
  /\ result' = [from_session |-> start.from_session, df |-> start.frames[start.ref]] @@ run.out
  /\ UNCHANGED <<attempt, transit_data, loaded>>

RunTravelPatterns ==
  LET start == PageData IN Finish(start, TravelPatterns(start.frames, start.ref))

RunRouteAnalysis ==
  LET start == PageData
  IN \E n_locations \in SliderValues :
       \E df_sorted \in sort_values_Date(start.frames[start.ref]),
          ranked \in value_counts_outcomes(Column(start.frames[start.ref], "Location"), NA) :
         Finish(start,
                [RouteAnalysis(start.frames, start.ref, n_locations, df_sorted)
                   EXCEPT !.out.location_counts = head(ranked, n_locations)])

RunSpendingInsights ==
  LET start == PageData
  IN \E sorted \in sort_values_Date(start.frames[start.ref]) :
       Finish(start, SpendingInsights(start.frames, start.ref, sorted))

\* the dates the picker offers: those of the table
DateChoices(table) == {DateOnly(d) : d \in ValidDates(table)}

\* what st.date_input returns: one date while the range is being picked, else two
DateRanges(table) ==
  {<<CHOOSE d \in DateChoices(table) :
       \A e \in DateChoices(table) : DateOrd(d) <= DateOrd(e)>>}
  \cup {<<s, e>> : s \in DateChoices(table), e \in DateChoices(table)}

Agencies(table) == {All} \cup {table[i].Transit_Agency : i \in DOMAIN table}

PageError(e) == [op |-> "explorer", error |-> e]

\* searches: the texts typed into the search box
RunDataExplorer(searches) ==
  LET start == PageData
      df == start.frames[start.ref]
  IN \/ \* no date to offer: min() and max() are NaT and the picker cannot be built;
        \* a NaT among the dates: its comparison with a date raises TypeError (in the
        \* pandas versions where it gives False instead, the next disjunct applies)
        /\ ValidDates(df) = {} \/ \E i \in DOMAIN df : df[i].Date = NaT
        /\ Finish(start, [frames |-> start.frames,
                          out |-> PageError(IF ValidDates(df) = {} THEN "date_input"
                                            ELSE "TypeError")])
     \/ /\ ValidDates(df) # {}
        /\ \E date_range \in DateRanges(df), selected_agency \in Agencies(df),
              location_search \in searches, display_mode \in DisplayModes :
             LET run == DataExplorer(start.frames, start.ref, date_range, selected_agency,
                                     location_search, display_mode)
             IN IF display_mode = "Table View"
                THEN \E shown \in Sorted(run.out.display_df, DisplayKeys(run.out.display_df)) :
                       Finish(start, [run EXCEPT !.out.display_df = shown])
                ELSE Finish(start, run)

Next ==
  \/ \E file \in LifeFiles : RunDashboard(file)
  \/ RunDashboard(SampleFile)
  \/ RunTravelPatterns
  \/ RunRouteAnalysis
  \/ RunSpendingInsights
  \/ RunDataExplorer({<<>>})

Spec == Init /\ [][Next]_vars

(***************************************************************************)
(* The aggregations as functions of a trip table: the table is drawn by    *)
(* Init, as the first dashboard run of a session leaves it, and one page   *)
(* is run on it.                                                           *)
(***************************************************************************)
Left(d) ==
  /\ attempt = d.attempt
  /\ transit_data = (IF d.stored THEN 1 ELSE NoTable)
  /\ frames = (IF d.stored THEN Keep(d.frames, d.ref) ELSE <<>>)
  /\ loaded = (IF d.stored THEN d.attempt.table ELSE <<>>)
  /\ result = d.out

InitAgg == \E file \in AggFiles : \E d \in DashboardOutcomes(<<>>, file) : Left(d)

\* the table is as the dashboard left it
Fresh == result.op = "dashboard"

AggTravelPatterns == Fresh /\ RunTravelPatterns

AggRouteAnalysis == Fresh /\ RunRouteAnalysis

AggSpendingInsights == Fresh /\ RunSpendingInsights

AggDataExplorer == Fresh /\ RunDataExplorer(SearchTexts)

NextAgg ==
  \/ AggTravelPatterns
  \/ AggRouteAnalysis
  \/ AggSpendingInsights
  \/ AggDataExplorer

SpecAgg == InitAgg /\ [][NextAgg]_vars

(***************************************************************************)
(* The synonym replacement as a function of the raw cells: the upload is   *)
(* drawn by Init from files whose cells are synonyms, replacements and     *)
(* near misses, and the route page is run on what was stored.              *)
(***************************************************************************)
zone17 == <<"z", "o", "n", "e", "1", "7">>

RemapTexts ==
  {Zone17, Zone20, Zone27, AldershotGO, SquareOne, UniversityOfWaterloo, zone17, Union}

RemapRows ==
  {CsvRow(FriMorning, l, Fare, GO) : l \in RemapTexts}
  \cup {CsvRow(FriMorning, Union, Fare, Zone17),
        CsvRow(FriMorning, Zone17, Fare, Zone20),
        CsvRow(FriMorning, Zone17, Zone27, GO)}

RemapFiles == {File(RequiredColumns, rows) : rows \in SeqsUpTo(RemapRows, MaxRemapRows)}

InitRemap == \E file \in RemapFiles : \E d \in DashboardOutcomes(<<>>, file) : Left(d)

SpecRemap == InitRemap /\ [][AggRouteAnalysis]_vars

(***************************************************************************)
(* The trip sequences of one long day: the upload is drawn by Init from    *)
(* the stretches of a round of four stops that passes along each of the    *)
(* twelve directed pairs once, one trip a minute, and the route page is    *)
(* run on what was stored.                                                 *)
(***************************************************************************)
\* a closed round over four stops in which every ordered pair of different stops
\* is a step exactly once
Circuit ==
  <<Union, StDotC, Union, StnC, Union, SquareOne,
    StDotC, StnC, StDotC, SquareOne, StnC, SquareOne>>

\* the stretches of up to MaxWalk trips, from four starting points of the round
WalkFiles ==
  {File(RequiredColumns,
        [k \in 1..n |->
           CsvRow(DateText(1, 5, 2024, 8, k, "AM"),
                  Circuit[((start + k - 1) % Len(Circuit)) + 1], Fare, GO)]) :
     start \in {0, 3, 6, 9}, n \in 0..MaxWalk}

InitSeq == \E file \in WalkFiles : \E d \in DashboardOutcomes(<<>>, file) : Left(d)

SpecSeq == InitSeq /\ [][AggRouteAnalysis]_vars

(***************************************************************************)
(* Properties of the trip sequences (pages/2).                             *)
(***************************************************************************)
\* C1: every pair extractSequences emits joins two neighbours of the table sorted by
\* Date that have different Locations and the same Date_Only; no pair links a
\* Location to itself and no pair links trips of different days.
C1_PairsDifferAndShareDay ==
  result.op = "routes" =>
    \A k \in DOMAIN result.trips :
      LET t == result.trips[k]
          a == result.df_sorted[t.i]
          b == result.df_sorted[t.i + 1]
      IN /\ t.from_loc = a.Location /\ t.to_loc = b.Location
         /\ t.from_loc # t.to_loc
         /\ a.Date_Only = b.Date_Only

\* a run that emitted a pair and passed over neighbours of different days
C1_Witness ==
  /\ result.op = "routes"
  /\ result.trips # <<>>
  /\ \E i \in 1..(Len(result.df_sorted) - 1) :
       result.df_sorted[i].Date_Only # result.df_sorted[i + 1].Date_Only

(***************************************************************************)
(* Properties of the filters (pages/4).                                    *)
(***************************************************************************)
\* the picker returned a range whose start lies after its end
InvertedRange ==
  /\ result.op = "explorer"
  /\ "date_range" \in DOMAIN result
  /\ Len(result.date_range) = 2
  /\ DateOrd(result.date_range[1]) > DateOrd(result.date_range[2])

\* C2: a date range whose start is after its end is rejected with a UsageError: no
\* result set is produced and the held table is left as it was.
C2_InvertedRangeRejected ==
  InvertedRange =>
    /\ result.error = "UsageError"
    /\ "filtered_df" \notin DOMAIN result
    /\ (transit_data # NoTable => frames[transit_data] = loaded)

LowerText(t) == [i \in DOMAIN t |-> Lower(t[i])]

\* the three tests of the claim on one trip: the day within the inclusive range, the
\* agency equal to the chosen one, the search text a substring of the Location
\* without regard to case
Satisfies(r, date_range, selected_agency, location_search) ==
  /\ Len(date_range) = 2 =>
       /\ DateOrd(DateOnly(r.Date)) >= DateOrd(date_range[1])
       /\ DateOrd(DateOnly(r.Date)) <= DateOrd(date_range[2])
  /\ selected_agency # All => r.Transit_Agency = selected_agency
  /\ location_search # <<>> => Contains(LowerText(r.Location), LowerText(location_search))

\* C3: the filter returns exactly the rows of its input that satisfy every active
\* filter, in the input's order; with no filter active that is the input itself.
C3_FilterIsConjunction ==
  (result.op = "explorer" /\ result.error = "") =>
    result.filtered_df =
      SelectSeq(result.df,
                LAMBDA r : Satisfies(r, result.date_range, result.selected_agency,
                                     result.location_search))

(***************************************************************************)
(* Properties of the load (utils, transit_tool).                           *)
(***************************************************************************)
\* text with the characters "-" and "$" taken out, however they are placed
Undecorated(t) == SelectSeq(t, LAMBDA c : c \notin {"-", "$"})

\* a raw table as clean_raw_data expects it: the required columns, every Date in the
\* fixed format, every Amount a text that is a number once "-" and "$" are removed
ValidRawTable(df) ==
  /\ RequiredColumns \subseteq df.columns
  /\ df.amount_dtype = "object"
  /\ \A i \in DOMAIN df.rows :
       /\ MatchesFormat(df.rows[i].Date)
       /\ df.rows[i].Amount # NA
       /\ IsUnsigned(Undecorated(df.rows[i].Amount))

Malformed(file) ==
  \/ ~(RequiredColumns \subseteq file.header)
  \/ \E i \in DOMAIN file.rows :
       \/ ~MatchesFormat(file.rows[i].Date)
       \/ ~IsUnsigned(Undecorated(file.rows[i].Amount))

\* C5: a load attempt on a malformed file fails as a whole: an error is reported and
\* the attempt stores no table.
C5_MalformedLoadFails ==
  (result.op = "dashboard" /\ Malformed(result.file)) =>
    /\ result.error # ""
    /\ ~result.stored
    /\ ~attempt.ok

(***************************************************************************)
(* Properties of the session holder.                                       *)
(***************************************************************************)
Pages == {"patterns", "routes", "spending", "explorer"}

\* C6: the table a page gets from the session holder is the normalized table of the
\* most recent load attempt: once a newer file has been put in the uploader, the
\* table of an earlier one is served no more.
C6_LatestUploadServed ==
  (result.op \in Pages /\ result.from_session) =>
    /\ attempt.ok
    /\ result.df = attempt.table

\* C7: whatever has run (dashboard charts, aggregations, filters, sequence
\* extraction, exports, failed or not), the table the session holder refers to is
\* row for row the one that was stored.
C7_HeldTableUnchanged ==
  transit_data # NoTable => frames[transit_data] = loaded

\* an export that rewrites the Date column of its copy has run on a held table
C7_Witness ==
  /\ result.op = "explorer"
  /\ result.error = ""
  /\ result.from_session
  /\ result.display_mode = "Table View"
  /\ result.display_df # <<>>
  /\ transit_data # NoTable
  /\ loaded # <<>>

(***************************************************************************)
(* Properties of the counts and sums.                                      *)
(***************************************************************************)
\* float addition over a series: NaN if an entry is NaN
FloatSum(series) ==
  IF \E i \in DOMAIN series : series[i].val.isnan THEN NaN
  ELSE Num(SumSeq([i \in DOMAIN series |-> series[i].val.val]))

C9_WeekdaySpendingSumsToTotal ==
  result.op = "spending" =>
    /\ Keys(result.day_spending) = day_order
    /\ FloatSum(result.day_spending) =
         FloatSum([i \in DOMAIN result.df |-> Entry(i, result.df[i].Amount_Clean)])

\* the rows of a table whose field f has the value v
RowsWith(table, f, v) == {i \in DOMAIN table : table[i][f] = v}

\* C10: a bucket of a fixed domain that no row falls in is present with the number 0:
\* in the weekday counts, the hourly counts and the weekday spending, the empty
\* table included.
C10_EmptyBucketsAreZero ==
  /\ result.op = "patterns" =>
       /\ Keys(result.day_counts) = day_order
       /\ \A i \in DOMAIN result.day_counts :
            RowsWith(result.df, "Day_of_Week", day_order[i]) = {} =>
              result.day_counts[i].val = Num(0)
       /\ Keys(result.all_hours) = [i \in 1..24 |-> i - 1]
       /\ \A i \in DOMAIN result.all_hours :
            RowsWith(result.df, "Hour", Num(i - 1)) = {} =>
              result.all_hours[i].val = Num(0)
  /\ result.op = "spending" =>
       /\ Keys(result.day_spending) = day_order
       /\ \A i \in DOMAIN result.day_spending :
            RowsWith(result.df, "Day_of_Week", day_order[i]) = {} =>
              result.day_spending[i].val = Num(0)

(***************************************************************************)
(* Properties of the weekday by hour grid (pages/1).                       *)
(***************************************************************************)
\* C11: the grid of Day_of_Week by Hour has the 7 weekdays Monday to Sunday as rows
\* and the 24 hours 0 to 23 as columns, in order; every cell is the number of trips
\* with that weekday and hour, 0 where there is none, a weekday or an hour
\* without any trip included.
C11_GridIsFullAndZeroFilled ==
  result.op = "patterns" =>
    /\ result.heatmap_data.index = day_order
    /\ result.heatmap_data.columns = [h \in 1..24 |-> h - 1]
    /\ \A d \in DOMAIN result.heatmap_data.cells :
         \A c \in DOMAIN result.heatmap_data.cells[d] :
           result.heatmap_data.cells[d][c] =
             Num(Cardinality(RowsWith(result.df, "Day_of_Week", day_order[d])
                             \cap RowsWith(result.df, "Hour", Num(c - 1))))

(***************************************************************************)
(* Properties of the monthly series (transit_tool, pages/3).               *)
(***************************************************************************)
\* the calendar months in which the table has a trip, in chronological order, each
\* with the sum of Amount_Clean of its trips
SumsOfMonths(table) ==
  LET idx == Ascending({MonthIdx(MonthOf(d)) : d \in ValidDates(table)})
  IN [k \in DOMAIN idx |->
        LET month == <<(idx[k] - 1) \div 12, ((idx[k] - 1) % 12) + 1>>
        IN Entry(month,
                 Num(SumSkipNA(Column(SelectSeq(table, LAMBDA r : r.Month = month),
                                      "Amount_Clean"))))]

\* C12: the monthly sums have one entry for each calendar month in which a trip
\* occurs, in chronological order, equal to the sum of Amount_Clean of that month's
\* trips, on the dashboard and on the spending page alike; the k-th cumulative
\* entry is the sum of the first k entries.
C12_MonthlySumsAndCumulative ==
  /\ (result.op = "dashboard" /\ result.stored /\ result.error = "") =>
       result.monthly_spending = SumsOfMonths(attempt.table)
  /\ result.op = "spending" =>
       /\ result.monthly_spending = SumsOfMonths(result.df)
       /\ \A k \in DOMAIN result.df_sorted :
            result.df_sorted[k].Cumulative_Spending =
              Num(SumSkipNA(Column(SubSeq(result.df_sorted, 1, k), "Amount_Clean")))

(***************************************************************************)
(* The example of two trips on one Friday.                                 *)
(***************************************************************************)
\* the normalized trips of the example: Aldershot GO and Union Station, 3.25 each,
\* both on a Friday
ExampleNormalized(table) ==
  /\ Len(table) = 2
  /\ table[1].Location = AldershotGO /\ table[2].Location = UnionStation
  /\ table[1].Amount_Clean = Num(325) /\ table[2].Amount_Clean = Num(325)
  /\ table[1].Day_of_Week = "Friday" /\ table[2].Day_of_Week = "Friday"

\* a page was handed the trips of the example, 08:15 and 17:40 of 2024-01-05
ExampleServed ==
  /\ result.op = "routes"
  /\ Len(result.df) = 2
  /\ result.df[1].Date = [y |-> 2024, m |-> 1, d |-> 5, H |-> 8, M |-> 15]
  /\ result.df[2].Date = [y |-> 2024, m |-> 1, d |-> 5, H |-> 17, M |-> 40]
  /\ result.df[1].Location = AldershotGO
  /\ result.df[2].Location = UnionStation

\* the one pair of the example, counted once
ExampleSequence ==
  /\ Len(result.trips) = 1
  /\ result.trips[1].from_loc = AldershotGO
  /\ result.trips[1].to_loc = UnionStation
  /\ result.trip_counts = <<Entry(Label(AldershotGO, UnionStation), Num(1))>>

\* C13 (as stated): the rows ("01/05/2024 08:15:00 AM", Zone17, $3.25, GO) and
\* ("01/05/2024 17:40:00 PM", Union Station, -$3.25, GO) load and normalize to
\* Aldershot GO and Union Station, 3.25 and 3.25, Friday and Friday.
C13_ExampleLoadsAsStated ==
  (result.op = "dashboard" /\ result.file = ExampleFile) =>
    /\ result.stored
    /\ attempt.ok
    /\ ExampleNormalized(attempt.table)

\* C13 (amended): with the second Date written "01/05/2024 05:40:00 PM" the two rows
\* load and normalize to Aldershot GO and Union Station, 3.25 and 3.25, Friday and
\* Friday, and the sequences of that table are exactly the one pair
\* (Aldershot GO, Union Station) with count 1.
C13_ExampleOn12hClock ==
  /\ (result.op = "dashboard" /\ result.file = ExampleFile12h) =>
       /\ result.stored
       /\ attempt.ok
       /\ ExampleNormalized(attempt.table)
  /\ ExampleServed => ExampleSequence

\* the route page has run on the uploaded example
C13_Witness ==
  /\ ExampleServed
  /\ result.from_session
  /\ attempt.ok
  /\ ExampleNormalized(attempt.table)
  /\ result.df = attempt.table

(***************************************************************************)
(* Properties of the synonym replacement (utils).                          *)
(***************************************************************************)
SynonymKeys == {Zone17, Zone20, Zone27}

\* C14: the Location replacement is exact and idempotent: a Location that is a key
\* becomes its replacement, any other text (a key in another case included) stays,
\* a replaced Location is left unchanged by the replacement, and replacing twice
\* in a table gives what replacing once gives.
C14_RemapIdempotent ==
  (result.op = "dashboard" /\ result.stored) =>
    LET raw == load_data(result.file).rows
    IN /\ \A i \in DOMAIN raw :
            /\ attempt.table[i].Location = replace(raw[i]).Location
            /\ Remap(attempt.table[i].Location) = attempt.table[i].Location
            /\ raw[i].Location \notin SynonymKeys =>
                 attempt.table[i].Location = raw[i].Location
            /\ raw[i].Location = Zone17 => attempt.table[i].Location = AldershotGO
            /\ raw[i].Location = Zone20 => attempt.table[i].Location = SquareOne
            /\ raw[i].Location = Zone27 => attempt.table[i].Location = UniversityOfWaterloo
       /\ [i \in DOMAIN raw |-> replace(replace(raw[i]))]
            = [i \in DOMAIN raw |-> replace(raw[i])]

\* a stored table from a file with a key and with a text that is already a replacement
C14_Witness ==
  /\ result.op = "dashboard"
  /\ result.stored
  /\ Len(result.file.rows) = 2
  /\ result.file.rows[1].Location = Zone20
  /\ result.file.rows[2].Location = SquareOne
  /\ attempt.table[1].Location = SquareOne
  /\ attempt.table[2].Location = SquareOne

\* C15: the replacement touches the Location only: the Amount and the Transit Agency
\* of every Trip are the raw cells as read, also when such a cell is exactly
\* Zone17, Zone20 or Zone27.
C15_RemapLocationOnly ==
  (result.op = "dashboard" /\ result.stored) =>
    LET raw == load_data(result.file).rows
    IN \A i \in DOMAIN raw :
         /\ attempt.table[i].Amount = raw[i].Amount
         /\ attempt.table[i].Transit_Agency = raw[i].Transit_Agency

(***************************************************************************)
(* Properties of the counted sequences (pages/2).                          *)
(***************************************************************************)
\* the positions of the Date-sorted table at which a trip at from_loc is followed,
\* on the same day, by a trip at to_loc
Positions(df_sorted, from_loc, to_loc) ==
  {i \in 1..(Len(df_sorted) - 1) :
     /\ df_sorted[i].Date_Only = df_sorted[i + 1].Date_Only
     /\ df_sorted[i].Location = from_loc
     /\ df_sorted[i + 1].Location = to_loc}

\* the ordered pairs of different locations that occur
Occurring(df_sorted) ==
  {p \in {<<df_sorted[i].Location, df_sorted[i + 1].Location>> :
            i \in 1..(Len(df_sorted) - 1)} :
     p[1] # p[2] /\ Positions(df_sorted, p[1], p[2]) # {}}

\* every entry of the counted sequences is an occurring pair with the number of its
\* positions, no pair twice, in descending order of count
CountedRight(trip_counts, df_sorted) ==
  /\ \A k \in DOMAIN trip_counts :
       \E p \in Occurring(df_sorted) :
         /\ trip_counts[k].key = Label(p[1], p[2])
         /\ trip_counts[k].val = Num(Cardinality(Positions(df_sorted, p[1], p[2])))
  /\ \A j, k \in DOMAIN trip_counts : j # k => trip_counts[j].key # trip_counts[k].key
  /\ \A j, k \in DOMAIN trip_counts : j < k => trip_counts[j].val.val >= trip_counts[k].val.val

FirstSeen(vals, v) == CHOOSE i \in DOMAIN vals : vals[i] = v /\ \A j \in 1..(i - 1) : vals[j] # v

\* a comes before b in the full ranking: by higher count, then by earlier first
\* occurrence
RanksBefore(vals, a, b) ==
  \/ CountOf(vals, a) > CountOf(vals, b)
  \/ CountOf(vals, a) = CountOf(vals, b) /\ FirstSeen(vals, a) < FirstSeen(vals, b)

\* the series is the first n entries of the full ranking of the values
IsTopOfRanking(series, vals, n) ==
  /\ Len(series) = (IF Cardinality(Range(vals)) < n THEN Cardinality(Range(vals)) ELSE n)
  /\ \A i \in DOMAIN series :
       /\ series[i].key \in Range(vals)
       /\ series[i].val = Num(CountOf(vals, series[i].key))
  /\ \A i, j \in DOMAIN series : i < j => RanksBefore(vals, series[i].key, series[j].key)
  /\ \A v \in Range(vals) :
       (\A i \in DOMAIN series : series[i].key # v) =>
         \A i \in DOMAIN series : RanksBefore(vals, series[i].key, v)

\* C17: the ranking of the Locations is in descending order of count, equal counts
\* in order of first occurrence, and a top-N is the first N entries of that
\* ranking: for nlargest(10) on the dashboard and for head(n_locations) on the
\* route page, which thus agree for equal N.
C17_RankingStableAndTopN ==
  /\ (result.op = "dashboard" /\ result.stored /\ result.error = "") =>
       IsTopOfRanking(result.location_counts, Column(attempt.table, "Location"), 10)
  /\ result.op = "routes" =>
       IsTopOfRanking(result.location_counts, Column(result.df, "Location"),
                      result.n_locations)

====
